---- MODULE Spec2Model ----
(***************************************************************************)
(* A model of fix_m1_rgb.py: the plist mutation (fix_display_prefs,        *)
(* fix_config, get_dict_value, has_any_link_description), the fix flow of  *)
(* main with its backup / write / remove effects, the curses pager         *)
(* (display), and the browser of backups (revert, restore_file, view_xml). *)
(*                                                                         *)
(* An ElementTree element is a record [tag, text, kids]; an element of a   *)
(* tree is named by its path, the sequence of child indices from the root. *)
(***************************************************************************)
EXTENDS Integers, Sequences, FiniteSets, TLC

VARIABLES
    \* ---- SpecFix: the in-memory fix applied once, then again
    fxDoc,      \* the decoded document handed to the fix
    fxPhase,    \* "init" | "once" | "twice" | "off"
    fxRes,      \* result of the first application
    fxRes2,     \* result of the second application
    \* ---- SpecLookup: get_dict_value on one dict
    lkDict, lkKey, lkRes, lkPhase,
    \* ---- Spec: main and fix_display_prefs with their effects on the files
    dry_run,     \* options.dry_run
    disk,        \* the content of each file: a document, Malformed or Absent
    disk0,       \* the content of each file when the run started
    backups,     \* the backup copies made: [of: path, content]
    effects,     \* the file operations performed, in order: [op, path]
    log,         \* what the run reported, in order: [ev, path]
    pc,          \* where the run is
    crash,       \* the exception that ended the run, PyNone while none has
    found_paths, \* main's found_paths
    idx,         \* the index in found_paths of the path being fixed
    locals,      \* fix_display_prefs' locals [xml, json_data], Unbound until assigned
    results,     \* per path, the outcome of the pre-check and the loop
    \* ---- SpecPager: display, the pager loop
    height, width,          \* the pad: number of lines, longest line
    win_height, win_width,  \* stdscr.getmaxyx()
    pad_top, pad_left,      \* the origin of the view in the pad
    last_key,               \* the key the last iteration handled, PyNone at first
    pgPhase,                \* "open" | "closed" | "off"
    resizable,              \* whether the terminal of this session can be resized
    resized,                \* whether it has been
    run,                    \* KEY_DOWN presses in a row (> 0), KEY_UP presses (< 0)
    \* ---- SpecNav: revert, restore_file and view_xml, the backup browser
    screen,          \* the loop waiting in getkey: "PathList" (revert),
                     \* "BackupList" (restore_file), "ContentView" (display);
                     \* "start" | "exited" | "crashed" | "off"
    todo_stub,       \* whether get_backups still has the return marked TODO: REMOVE ME
    bak_files,       \* per candidate path, how many <name>.bak.* files its directory holds
    backups_by_path, \* revert's backups_by_path, in order: [path, backups]
    paths,           \* revert's paths
    selection,       \* revert's selection
    rf_frame,        \* restore_file's [path, backup_paths, selection]
    view_fmt,        \* the format view_xml converted the shown backup to
    nav_exc,         \* the exception that ended the browser, PyNone while none has
    queried,         \* whether the last step called get_backup_locations
    q_run            \* 'q' presses in a row

fxVars == <<fxDoc, fxPhase, fxRes, fxRes2>>
lkVars == <<lkDict, lkKey, lkRes, lkPhase>>
fsVars == <<disk, backups, effects>>
flowVars == <<dry_run, disk0, fsVars, log, pc, crash, found_paths, idx, locals, results>>
pgVars == <<height, width, win_height, win_width, pad_top, pad_left, last_key, pgPhase,
            resizable, resized, run>>
navVars == <<screen, todo_stub, bak_files, backups_by_path, paths, selection, rf_frame,
             view_fmt, nav_exc, queried, q_run>>
vars == <<fxVars, lkVars, flowVars, pgVars, navVars>>

-----------------------------------------------------------------------------
(* Bounds *)

\* most display dicts in one document
MaxDisplays == 2
\* the pager's small sessions: most lines, longest line, largest window side
MaxLines == 4
MaxCols == 3
MaxWin == 3
\* the pager's large session: 100 lines of 80 columns in a window of 24 x 80
ScenarioLines == 100
ScenarioCols == 80
ScenarioRows == 24

-----------------------------------------------------------------------------
(* ElementTree elements *)

Elem(tag, text, kids) == [tag |-> tag, text |-> text, kids |-> kids]
Str(t) == Elem("string", t, <<>>)
Key(t) == Elem("key", t, <<>>)
Dict(kids) == Elem("dict", "", kids)
Arr(kids) == Elem("array", "", kids)
Plist(kids) == Elem("plist", "", kids)

\* Python's None, where the code holds Optional[str] / Optional[Element]
PyNone == "None"
\* get_dict_value's "return None": no path has a 0 in it
NoElem == <<0>>

RECURSIVE NodeAt(_, _)
NodeAt(node, path) ==
    IF path = <<>> THEN node ELSE NodeAt(node.kids[Head(path)], Tail(path))

RECURSIVE SetText(_, _, _)
SetText(node, path, t) ==
    IF path = <<>>
    THEN [node EXCEPT !.text = t]
    ELSE [node EXCEPT !.kids[Head(path)] = SetText(@, Tail(path), t)]

\* Element.iter(): the element itself, then its descendants, in document order
RECURSIVE Iter(_, _)
RECURSIVE IterKids(_, _, _)
Iter(node, path) == <<path>> \o IterKids(node.kids, path, 1)
IterKids(kids, path, i) ==
    IF i > Len(kids) THEN <<>>
    ELSE Iter(kids[i], Append(path, i)) \o IterKids(kids, path, i + 1)

\* bool(element): an element without children is falsy, None is falsy
Truthy(root, path) == path # NoElem /\ Len(NodeAt(root, path).kids) > 0

-----------------------------------------------------------------------------
(* get_dict_value *)

RECURSIVE GetDictValueScan(_, _, _, _, _)
GetDictValueScan(root, its, i, prev_key, key) ==
    IF i > Len(its) THEN NoElem
    ELSE IF prev_key = key THEN its[i]
    ELSE LET elem == NodeAt(root, its[i])
         IN GetDictValueScan(root, its, i + 1,
                IF elem.tag = "key" THEN elem.text ELSE PyNone, key)

get_dict_value(root, plist_dict, key) ==
    GetDictValueScan(root, Iter(NodeAt(root, plist_dict), plist_dict), 1, PyNone, key)

-----------------------------------------------------------------------------
(* fix_config: the conditional rewrite of one config *)

\* the two assignments of fix_config
WriteFix(xml, pixel_encoding, range) ==
    SetText(SetText(xml, pixel_encoding, "0"), range, "1")

\* mutant: the guard tests for the values the fix writes
NotAsExpectedInverted(pe_text, range_text) == pe_text # "0" \/ range_text # "1"

\* the guard of fix_config: the values are not the YPbPr signature
NotAsExpected(pe_text, range_text) == pe_text # "1" \/ range_text # "0"

\* [raised: an assert failed, fixed: the return value, xml: the tree after]
fix_config(xml, config) ==
    LET link_description_dict == get_dict_value(xml, config, "LinkDescription")
    IN IF ~(Truthy(xml, link_description_dict)
            /\ NodeAt(xml, link_description_dict).tag = "dict")
       THEN [raised |-> TRUE, fixed |-> FALSE, xml |-> xml]
       ELSE LET pixel_encoding == get_dict_value(xml, link_description_dict, "PixelEncoding")
                range == get_dict_value(xml, link_description_dict, "Range")
            IN IF pixel_encoding = NoElem \/ range = NoElem
               THEN [raised |-> TRUE, fixed |-> FALSE, xml |-> xml]
               ELSE IF NotAsExpected(NodeAt(xml, pixel_encoding).text,
                                     NodeAt(xml, range).text)
               THEN [raised |-> FALSE, fixed |-> FALSE, xml |-> xml]
               ELSE [raised |-> FALSE, fixed |-> TRUE,
                     xml |-> WriteFix(xml, pixel_encoding, range)]

-----------------------------------------------------------------------------
(* fix_display_prefs: the pre-check and the loop over the configs *)

HasKeyChild(node, key) ==
    \E i \in 1..Len(node.kids) : node.kids[i].tag = "key" /\ node.kids[i].text = key

\* xml.findall('.//dict[key="LinkDescription"]'): the dict elements below the
\* root that have a child <key>LinkDescription</key>, in document order
FindAllConfigs(xml) ==
    SelectSeq(Tail(Iter(xml, <<>>)),
              LAMBDA p : NodeAt(xml, p).tag = "dict"
                         /\ HasKeyChild(NodeAt(xml, p), "LinkDescription"))

\* the for loop of fix_display_prefs from configs_to_fix[i] on.
\* st = [raised, xml, num_fixed, fixed: the uuids logged "Fixed Display",
\*       evaluated: the configs handed to fix_config]
RECURSIVE FixLoop(_, _, _)
FixLoop(st, configs_to_fix, i) ==
    IF i > Len(configs_to_fix) THEN st
    ELSE LET config == configs_to_fix[i]
             uuid_elem == get_dict_value(st.xml, config, "UUID")
         IN IF uuid_elem = NoElem
            THEN FixLoop(st, configs_to_fix, i + 1)
            ELSE LET uuid == NodeAt(st.xml, uuid_elem).text
                     r == fix_config(st.xml, config)
                     ev == Append(st.evaluated, config)
                 IN IF r.raised
                    THEN [st EXCEPT !.raised = TRUE, !.evaluated = ev]
                    ELSE IF r.fixed
                    THEN FixLoop([st EXCEPT !.xml = r.xml,
                                            !.num_fixed = @ + 1,
                                            !.fixed = Append(@, uuid),
                                            !.evaluated = ev],
                                 configs_to_fix, i + 1)
                    ELSE FixLoop([st EXCEPT !.evaluated = ev], configs_to_fix, i + 1)

LoopStart(xml) ==
    [raised |-> FALSE, xml |-> xml, num_fixed |-> 0, fixed |-> <<>>,
     evaluated |-> <<>>, skipped |-> FALSE]

(* plutil -convert json, then json.loads: a dict becomes a mapping from its
   keys to its values (pairs of its own children), an array a list *)
RECURSIVE PlistToJson(_)
PlistToJson(node) ==
    CASE node.tag = "plist" -> PlistToJson(node.kids[1])
      [] node.tag = "dict" ->
            [t |-> "obj", s |-> "",
             ks |-> [i \in 1..(Len(node.kids) \div 2) |-> node.kids[2 * i - 1].text],
             vs |-> [i \in 1..(Len(node.kids) \div 2) |-> PlistToJson(node.kids[2 * i])]]
      [] node.tag = "array" ->
            [t |-> "arr", s |-> "", ks |-> <<>>,
             vs |-> [i \in 1..Len(node.kids) |-> PlistToJson(node.kids[i])]]
      [] OTHER -> [t |-> "str", s |-> node.text, ks |-> <<>>, vs |-> <<>>]

EmptyObj == [t |-> "obj", s |-> "", ks |-> <<>>, vs |-> <<>>]
EmptyArr == [t |-> "arr", s |-> "", ks |-> <<>>, vs |-> <<>>]

\* dict.get(key, default)
JsonGet(obj, key, default) ==
    IF \E i \in 1..Len(obj.ks) : obj.ks[i] = key
    THEN obj.vs[CHOOSE i \in 1..Len(obj.ks) :
                    obj.ks[i] = key /\ \A j \in (i + 1)..Len(obj.ks) : obj.ks[j] # key]
    ELSE default

\* bool(x) of a list, a mapping or a string
JsonTruthy(x) == IF x.t = "str" THEN x.s # "" ELSE Len(x.vs) > 0

has_any_link_description(data) ==
    LET configs == JsonGet(JsonGet(data, "DisplayAnyUserSets", EmptyObj),
                           "Configs", EmptyArr)
    IN \E c \in 1..Len(configs.vs) :
          LET config == configs.vs[c]
          IN /\ JsonTruthy(config)
             /\ JsonTruthy(config.vs[1])
             /\ \E i \in 1..Len(config.vs[1].ks) : config.vs[1].ks[i] = "LinkDescription"

\* mutant: the skip is logged but does not return
FixDocumentNoReturn(xml, json_data) ==
    FixLoop(LoopStart(xml), FindAllConfigs(xml), 1)

\* fix_display_prefs from the pre-check to the end of the loop, on decoded data
FixDocument(xml, json_data) ==
    IF ~has_any_link_description(json_data)
    THEN [LoopStart(xml) EXCEPT !.skipped = TRUE]
    ELSE FixLoop(LoopStart(xml), FindAllConfigs(xml), 1)

\* both views decoded from the same file
FixDecoded(xml) == FixDocument(xml, PlistToJson(xml))

-----------------------------------------------------------------------------
(* The documents the fix is run on: com.apple.windowserver.displays.plist is
   plist > dict > DisplayAnyUserSets > dict > Configs > array of configs,
   a config an array of display dicts. *)

UUIDs == <<"u1", "u2", "u3", "u4">>

LinkDescription(pe, range) ==
    Dict(<<Key("PixelEncoding"), Str(pe), Key("Range"), Str(range)>>)

\* the value of a display's LinkDescription key, by kind
LDValue(ld) ==
    CASE ld = "00" -> LinkDescription("0", "0")
      [] ld = "01" -> LinkDescription("0", "1")
      [] ld = "10" -> LinkDescription("1", "0")
      [] ld = "11" -> LinkDescription("1", "1")
      [] ld = "noRange" -> Dict(<<Key("PixelEncoding"), Str("1")>>)
      [] ld = "noPE" -> Dict(<<Key("Range"), Str("0")>>)
      [] ld = "empty" -> Dict(<<>>)
      \* a nested dict ahead of the dict's own PixelEncoding
      [] ld = "inner" -> Dict(<<Key("X"), Dict(<<Key("PixelEncoding"), Str("1")>>),
                                Key("PixelEncoding"), Str("0"),
                                Key("Range"), Str("0")>>)

LDKinds == {"absent", "00", "01", "10", "11", "noRange", "noPE", "empty", "inner"}
PreKinds == {"none", "nested01", "nested10"}

\* one display dict: an optional leading entry whose value is a nested dict
\* with a LinkDescription of its own, UUID, LinkDescription, Rotation
Display(i, k) ==
    Dict(  (CASE k.pre = "none" -> <<>>
              [] k.pre = "nested01" ->
                    <<Key("A"), Dict(<<Key("LinkDescription"), LinkDescription("0", "1")>>)>>
              [] k.pre = "nested10" ->
                    <<Key("A"), Dict(<<Key("LinkDescription"), LinkDescription("1", "0")>>)>>)
        \o (IF k.uuid THEN <<Key("UUID"), Str(UUIDs[i])>> ELSE <<>>)
        \o (IF k.ld = "absent" THEN <<>> ELSE <<Key("LinkDescription"), LDValue(k.ld)>>)
        \o <<Key("Rotation"), Str("0")>>)

DisplayKinds ==
    {k \in [pre : PreKinds, uuid : BOOLEAN, ld : LDKinds] :
        \/ k.pre = "none" /\ (k.uuid \/ k.ld \in {"absent", "10"})
        \/ k.pre = "nested01" /\ k.uuid /\ k.ld = "10"
        \/ k.pre = "nested10" /\ k.uuid /\ k.ld = "01"}

Layouts == {"one", "each"}

\* layout "one": all displays in one config; "each": a config per display
Document(layout, kinds) ==
    LET displays == [i \in 1..Len(kinds) |-> Display(i, kinds[i])]
        configs == IF layout = "one" THEN <<Arr(displays)>>
                   ELSE [i \in 1..Len(kinds) |-> Arr(<<displays[i]>>)]
    IN Plist(<<Dict(<<Key("DisplayAnyUserSets"),
                      Dict(<<Key("Configs"), Arr(configs),
                             Key("Version"), Str("1")>>)>>)>>)

KindSeqs(S) == UNION {[1..n -> S] : n \in 0..MaxDisplays}

Documents == {Document(l, ks) : l \in Layouts, ks \in KindSeqs(DisplayKinds)}

-----------------------------------------------------------------------------
(* SpecFix: the fix applied to a decoded document, and applied again to the
   result *)

NoRes == LoopStart(Plist(<<>>))

\* the variables of a part that a specification does not run
FixOff == fxDoc = Plist(<<>>) /\ fxPhase = "off" /\ fxRes = NoRes /\ fxRes2 = NoRes
LookupOff == lkDict = Dict(<<>>) /\ lkKey = PyNone /\ lkRes = NoElem /\ lkPhase = "off"
FlowOff ==
    /\ dry_run = FALSE /\ disk = <<>> /\ disk0 = <<>> /\ backups = {}
    /\ effects = <<>> /\ log = <<>> /\ pc = "off" /\ crash = PyNone
    /\ found_paths = <<>> /\ idx = 0 /\ locals = <<>>
    /\ results = <<>>

PagerOff ==
    /\ height = 0 /\ width = 0 /\ win_height = 0 /\ win_width = 0
    /\ pad_top = 0 /\ pad_left = 0 /\ last_key = PyNone /\ pgPhase = "off"
    /\ resizable = FALSE /\ resized = FALSE /\ run = 0

NoFrame == [path |-> PyNone, backup_paths |-> <<>>, selection |-> 0]

NavOff ==
    /\ screen = "off" /\ todo_stub = TRUE /\ bak_files = <<>>
    /\ backups_by_path = <<>> /\ paths = <<>> /\ selection = 0
    /\ rf_frame = NoFrame /\ view_fmt = PyNone /\ nav_exc = PyNone
    /\ queried = FALSE /\ q_run = 0

FixInit ==
    /\ fxDoc \in Documents
    /\ fxPhase = "init"
    /\ fxRes = NoRes
    /\ fxRes2 = NoRes
    /\ LookupOff /\ FlowOff /\ PagerOff /\ NavOff

FixFirst ==
    /\ fxPhase = "init"
    /\ fxRes' = FixDecoded(fxDoc)
    /\ fxPhase' = "once"
    /\ UNCHANGED <<fxDoc, fxRes2, lkVars, flowVars, pgVars, navVars>>

\* the second run, on the tree the first one returned normally
FixSecond ==
    /\ fxPhase = "once"
    /\ ~fxRes.raised
    /\ fxRes2' = FixDecoded(fxRes.xml)
    /\ fxPhase' = "twice"
    /\ UNCHANGED <<fxDoc, fxRes, lkVars, flowVars, pgVars, navVars>>

FixNext == FixFirst \/ FixSecond

SpecFix == FixInit /\ [][FixNext]_vars

-----------------------------------------------------------------------------
(* SpecLookup: get_dict_value applied to one dict and one key *)

\* the dict <key>A</key> valueA <key>B</key> <string>2</string>
PairDict(valueA) == Dict(<<Key("A"), valueA, Key("B"), Str("2")>>)

LookupDicts ==
    {Display(1, k) : k \in DisplayKinds}
    \cup {PairDict(v) : v \in {Str("1"), Dict(<<Key("B"), Str("3")>>),
                               Dict(<<Key("C"), Str("3")>>),
                               Arr(<<Dict(<<Key("B"), Str("3")>>)>>)}}

LookupKeys == {"A", "B", "C", "UUID", "LinkDescription", "PixelEncoding", "Range",
               "Rotation"}

LookupInit ==
    /\ lkDict \in LookupDicts
    /\ lkKey \in LookupKeys
    /\ lkRes = NoElem
    /\ lkPhase = "init"
    /\ FixOff /\ FlowOff /\ PagerOff /\ NavOff

Lookup ==
    /\ lkPhase = "init"
    /\ lkRes' = get_dict_value(lkDict, <<>>, lkKey)
    /\ lkPhase' = "done"
    /\ UNCHANGED <<lkDict, lkKey, fxVars, flowVars, pgVars, navVars>>

LookupNext == Lookup

SpecLookup == LookupInit /\ [][LookupNext]_vars

-----------------------------------------------------------------------------
(* What the claims speak of: the pairs of a dict's own children *)

\* the child that follows the dict's own child <key>key</key>, or NoElem
DirectValue(root, dict, key) ==
    LET kids == NodeAt(root, dict).kids
        hits == {i \in 1..(Len(kids) - 1) : kids[i].tag = "key" /\ kids[i].text = key}
    IN IF hits = {} THEN NoElem
       ELSE Append(dict, 1 + CHOOSE i \in hits : \A j \in hits : i <= j)

\* the text of a dict's own entry, PyNone without that entry
DirectText(root, dict, key) ==
    IF dict = NoElem \/ DirectValue(root, dict, key) = NoElem THEN PyNone
    ELSE NodeAt(root, DirectValue(root, dict, key)).text

\* every dict of the tree that has a key LinkDescription of its own
LinkDicts(root) ==
    {p \in {Iter(root, <<>>)[i] : i \in 1..Len(Iter(root, <<>>))} :
        NodeAt(root, p).tag = "dict" /\ DirectValue(root, p, "LinkDescription") # NoElem}

\* the dict's own LinkDescription holds PixelEncoding "1" and Range "0"
HasSignature(root, p) ==
    LET ld == DirectValue(root, p, "LinkDescription")
    IN /\ DirectText(root, ld, "PixelEncoding") = "1"
       /\ DirectText(root, ld, "Range") = "0"

IsRgb(root, p) ==
    LET ld == DirectValue(root, p, "LinkDescription")
    IN /\ DirectText(root, ld, "PixelEncoding") = "0"
       /\ DirectText(root, ld, "Range") = "1"

\* the displays the fix is to change: signature and a UUID of their own
ToFix(root) ==
    {p \in LinkDicts(root) :
        DirectValue(root, p, "UUID") # NoElem /\ HasSignature(root, p)}

Occurrences(seq, x) == Cardinality({i \in 1..Len(seq) : seq[i] = x})

FixReturned == fxPhase \in {"once", "twice"} /\ ~fxRes.raised

(* C1: in a document that passes the pre-check, every dict with a key
   LinkDescription and a UUID of its own whose LinkDescription holds "1"/"0"
   holds "0"/"1" after the fix and is reported fixed exactly once; the number
   fixed is the number of such dicts, and no other display is reported. *)
C1_FixesExactlyTheSignature ==
    (FixReturned /\ ~fxRes.skipped) =>
        /\ \A p \in ToFix(fxDoc) :
              /\ IsRgb(fxRes.xml, p)
              /\ Occurrences(fxRes.fixed, DirectText(fxDoc, p, "UUID")) = 1
        /\ fxRes.num_fixed = Cardinality(ToFix(fxDoc))
        /\ \A i \in 1..Len(fxRes.fixed) :
              \E p \in ToFix(fxDoc) : DirectText(fxDoc, p, "UUID") = fxRes.fixed[i]

(* C2: a second fix of the result of a first fix changes no node and fixes 0. *)
C2_Idempotent ==
    fxPhase = "twice" =>
        /\ ~fxRes2.raised
        /\ fxRes2.xml = fxRes.xml
        /\ fxRes2.num_fixed = 0
        /\ fxRes2.fixed = <<>>

\* a second fix has run on a document the first fix changed
C2_Witness ==
    fxPhase = "twice" /\ fxRes.num_fixed >= 1 /\ fxRes.xml # fxDoc

\* the PixelEncoding and Range leaves of the dicts that hold the signature
SignatureLeaves(root) ==
    UNION {{DirectValue(root, DirectValue(root, p, "LinkDescription"), "PixelEncoding"),
            DirectValue(root, DirectValue(root, p, "LinkDescription"), "Range")} :
           p \in {q \in LinkDicts(root) : HasSignature(root, q)}}

(* C3: the fix changes nothing but the PixelEncoding and Range leaves of the
   dicts that hold the signature: a LinkDescription without the signature is
   the same before and after, and every element keeps its tag, its children
   and, unless it is such a leaf, its text. *)
C3_ChangesOnlySignatureLeaves ==
    fxPhase \in {"once", "twice"} =>
        /\ \A p \in LinkDicts(fxDoc) :
              ~HasSignature(fxDoc, p) =>
                  NodeAt(fxRes.xml, DirectValue(fxDoc, p, "LinkDescription"))
                      = NodeAt(fxDoc, DirectValue(fxDoc, p, "LinkDescription"))
        /\ Iter(fxRes.xml, <<>>) = Iter(fxDoc, <<>>)
        /\ \A i \in 1..Len(Iter(fxDoc, <<>>)) :
              LET p == Iter(fxDoc, <<>>)[i]
              IN /\ NodeAt(fxRes.xml, p).tag = NodeAt(fxDoc, p).tag
                 /\ p \notin SignatureLeaves(fxDoc) =>
                        NodeAt(fxRes.xml, p).text = NodeAt(fxDoc, p).text

(* C6: looking a key up in a dict returns the child that follows the dict's
   own key of that name, never an element of a descendant. *)
C6_LookupIsPositional ==
    lkPhase = "done" => lkRes = DirectValue(lkDict, <<>>, lkKey)

-----------------------------------------------------------------------------
(* Spec: the fix flow, main and fix_display_prefs, with its file effects *)

RootPath == "/Library/Preferences/com.apple.windowserver.displays.plist"
HomePath == "~/Library/Preferences/com.apple.windowserver.displays.plist"
ByHostPath == "~/Library/Preferences/ByHost/com.apple.windowserver.displays.UUID.plist"

get_possible_paths == <<RootPath, HomePath>>
FilePaths == {RootPath, HomePath, ByHostPath}

\* no file at the path / a file plutil cannot convert
Absent == Elem("absent", "", <<>>)
Malformed == Elem("malformed", "", <<>>)
\* a local variable that has not been assigned
Unbound == Elem("unbound", "", <<>>)
UnboundJson == [t |-> "unbound", s |-> "", ks |-> <<>>, vs |-> <<>>]
NoLocals == [xml |-> Unbound, json_data |-> UnboundJson]

\* the displays of the documents the flow is run on
FlowKinds ==
    {k \in DisplayKinds : k.pre = "none" /\ k.uuid /\ k.ld \in {"absent", "10", "noRange"}}
FlowDocuments == {Document("one", ks) : ks \in KindSeqs(FlowKinds)}

\* the files and what was done to them
World == [disk |-> disk, backups |-> backups, effects |-> effects, ok |-> TRUE]
SetWorld(w) == disk' = w.disk /\ backups' = w.backups /\ effects' = w.effects

\* mutant: the copy is made in dry-run mode only
backup_inverted(w, path, cp_ok) ==
    IF dry_run THEN [w EXCEPT !.backups = @ \cup {[of |-> path, content |-> w.disk[path]]}]
    ELSE w

\* backup: cp path path.bak.ts unless dry-run; check_call raises when cp fails
backup(w, path, cp_ok) ==
    IF dry_run THEN w
    ELSE IF cp_ok
    THEN [w EXCEPT !.backups = @ \cup {[of |-> path, content |-> w.disk[path]]},
                   !.effects = Append(@, [op |-> "backup", path |-> path])]
    ELSE [w EXCEPT !.ok = FALSE]

\* remove: rm path unless dry-run
remove(w, path) ==
    IF dry_run THEN w
    ELSE [w EXCEPT !.disk[path] = Absent,
                   !.effects = Append(@, [op |-> "remove", path |-> path])]

\* mutant: the write is not guarded by dry-run
write_output_unguarded(w, path, tree) ==
    [w EXCEPT !.disk[path] = tree,
              !.effects = Append(@, [op |-> "write", path |-> path])]

\* write_output: plutil -convert binary1 -o path of the tree unless dry-run
write_output(w, path, tree) ==
    IF dry_run THEN w
    ELSE [w EXCEPT !.disk[path] = tree,
                   !.effects = Append(@, [op |-> "write", path |-> path])]

Logged(ev, path) == Append(log, [ev |-> ev, path |-> path])

Init ==
    /\ dry_run \in BOOLEAN
    /\ disk \in {d \in [FilePaths -> FlowDocuments \cup {Absent, Malformed}] :
                    d[ByHostPath] \in {Absent, Document("one", <<>>)}}
    /\ disk0 = disk
    /\ backups = {}
    /\ effects = <<>>
    /\ log = <<>>
    /\ pc = "main"
    /\ crash = PyNone
    /\ found_paths = <<>>
    /\ idx = 0
    /\ locals = NoLocals
    /\ results = [p \in {RootPath, HomePath} |-> NoRes]
    /\ FixOff /\ LookupOff /\ PagerOff /\ NavOff

\* main up to the loop over found_paths (check_os has let the run go on)
MainStart ==
    /\ pc = "main"
    /\ LET found == SelectSeq(get_possible_paths, LAMBDA p : disk[p] # Absent)
       IN /\ found_paths' = found
          /\ IF found = <<>>
             THEN pc' = "exit1" /\ idx' = 0
             ELSE pc' = "backup" /\ idx' = 1
    /\ UNCHANGED <<dry_run, disk0, fsVars, log, crash, locals, results, fxVars, lkVars, pgVars, navVars>>

\* after fix_display_prefs(found_paths[idx]) returned: the next path, or ByHost
Return ==
    /\ locals' = NoLocals
    /\ IF idx < Len(found_paths)
       THEN pc' = "backup" /\ idx' = idx + 1
       ELSE pc' = "byhost" /\ idx' = idx

\* fix_display_prefs, line 114: backup(path)
Backup ==
    /\ pc = "backup"
    /\ \E cp_ok \in BOOLEAN :
          LET w == backup(World, found_paths[idx], cp_ok)
          IN /\ SetWorld(w)
             /\ IF w.ok THEN pc' = "decode" /\ crash' = crash
                ELSE pc' = "crashed" /\ crash' = "CalledProcessError"
    /\ UNCHANGED <<dry_run, disk0, log, found_paths, idx, locals, results, fxVars, lkVars, pgVars, navVars>>

\* fix_display_prefs, lines 115-120: the two conversions in try / except
Decode ==
    /\ pc = "decode"
    /\ LET path == found_paths[idx]
       IN IF disk[path] = Malformed
          THEN /\ log' = Append(Logged("Fixing", path), [ev |-> "Failed to fix", path |-> path])
               /\ locals' = locals
          ELSE /\ log' = Logged("Fixing", path)
               /\ locals' = [xml |-> disk[path], json_data |-> PlistToJson(disk[path])]
    /\ pc' = "fix"
    /\ UNCHANGED <<dry_run, disk0, fsVars, crash, found_paths, idx, results, fxVars, lkVars, pgVars, navVars>>

\* fix_display_prefs, lines 122-144: the pre-check and the loop
PreCheckAndFix ==
    /\ pc = "fix"
    /\ LET path == found_paths[idx]
       IN IF locals.json_data = UnboundJson
          THEN /\ pc' = "crashed" /\ crash' = "UnboundLocalError"
               /\ UNCHANGED <<log, locals, results, idx>>
          ELSE LET r == FixDocument(locals.xml, locals.json_data)
               IN /\ results' = [results EXCEPT ![path] = r]
                  /\ IF r.skipped
                     THEN /\ log' = Logged("Skipping", path)
                          /\ crash' = crash
                          /\ Return
                     ELSE IF r.raised
                     THEN /\ pc' = "crashed" /\ crash' = "AssertionError"
                          /\ UNCHANGED <<log, locals, idx>>
                     ELSE /\ pc' = "write" /\ crash' = crash
                          /\ locals' = [locals EXCEPT !.xml = r.xml]
                          /\ UNCHANGED <<log, idx>>
    /\ UNCHANGED <<dry_run, disk0, fsVars, found_paths, fxVars, lkVars, pgVars, navVars>>

\* fix_display_prefs, lines 146-149: print the tree and write_output
WriteOut ==
    /\ pc = "write"
    /\ log' = Logged("Resulting XML output", found_paths[idx])
    /\ SetWorld(write_output(World, found_paths[idx], locals.xml))
    /\ Return
    /\ UNCHANGED <<dry_run, disk0, crash, found_paths, results, fxVars, lkVars, pgVars, navVars>>

\* main, lines 52-59: back up and remove the ByHost file if it exists
ByHost ==
    /\ pc = "byhost"
    /\ IF disk[ByHostPath] # Absent
       THEN \E cp_ok \in BOOLEAN :
               LET w == backup(World, ByHostPath, cp_ok)
               IN IF w.ok
                  THEN /\ SetWorld(remove(w, ByHostPath))
                       /\ log' = Logged("Found ByHost", ByHostPath)
                       /\ pc' = "done" /\ crash' = crash
                  ELSE /\ SetWorld(w)
                       /\ log' = Logged("Found ByHost", ByHostPath)
                       /\ pc' = "crashed" /\ crash' = "CalledProcessError"
       ELSE /\ log' = Logged("Did not find ByHost", ByHostPath)
            /\ pc' = "done" /\ crash' = crash
            /\ UNCHANGED fsVars
    /\ UNCHANGED <<dry_run, disk0, found_paths, idx, locals, results, fxVars, lkVars, pgVars, navVars>>

Next == MainStart \/ Backup \/ Decode \/ PreCheckAndFix \/ WriteOut \/ ByHost

Spec == Init /\ [][Next]_vars

-----------------------------------------------------------------------------
(* The claims about the fix flow *)

Candidates == {RootPath, HomePath}
Did(op, path) == \E i \in 1..Len(effects) : effects[i] = [op |-> op, path |-> path]
Reported(ev, path) == \E i \in 1..Len(log) : log[i] = [ev |-> ev, path |-> path]
WellFormed(tree) == tree.tag = "plist"
\* the pre-check and the loop have run on the path's file
Evaluated(path) == results[path] # NoRes

(* C4: a write to a path comes after a successful backup of that path in the
   same run; a file that is no longer what it was has a backup that holds what
   it was; a file without a backup (the copy failed, or dry-run) is untouched. *)
C4_BackupBeforeWrite ==
    /\ \A i \in 1..Len(effects) :
          effects[i].op \in {"write", "remove"} =>
              \E j \in 1..(i - 1) : effects[j] = [op |-> "backup", path |-> effects[i].path]
    /\ \A p \in FilePaths :
          disk[p] # disk0[p] => [of |-> p, content |-> disk0[p]] \in backups
    /\ \A p \in FilePaths :
          (\A b \in backups : b.of # p) => disk[p] = disk0[p]

\* a fixed document has been written over the original
C4_Witness ==
    \E p \in Candidates : Did("write", p) /\ disk[p] # disk0[p] /\ results[p].num_fixed >= 1

(* C5: with --dry-run no file is written, copied or removed, while every found
   path the run has gone through was still decoded, fixed in memory and
   reported, and a run that ends has gone through every found path. *)
C5_DryRunSuppressesEffects ==
    dry_run =>
        /\ effects = <<>> /\ backups = {} /\ disk = disk0
        /\ pc \in {"byhost", "done"} => idx = Len(found_paths)
        /\ \A i \in 1..Len(found_paths) :
              (i < idx \/ pc \in {"byhost", "done"}) =>
                 LET p == found_paths[i]
                 IN /\ Reported("Fixing", p)
                    /\ results[p] = FixDecoded(disk0[p])
                    /\ results[p].skipped \/ Reported("Resulting XML output", p)

\* a dry run that fixed a display in memory and found a ByHost file has ended
C5_Witness ==
    /\ dry_run /\ pc = "done" /\ disk0[ByHostPath] # Absent
    /\ \E p \in Candidates : results[p].num_fixed >= 1 /\ Reported("Resulting XML output", p)

(* C7: a LinkDescription that lacks PixelEncoding or Range stops only its own
   entry: every entry of the document that has a UUID is still evaluated and
   the run goes on to write the tree with the fixes made so far. *)
C7_StructuralErrorConfined ==
    /\ crash # "AssertionError"
    /\ \A p \in Candidates :
          (Evaluated(p) /\ ~results[p].skipped) =>
              {results[p].evaluated[i] : i \in 1..Len(results[p].evaluated)}
                  = {c \in LinkDicts(disk0[p]) : DirectValue(disk0[p], c, "UUID") # NoElem}

(* C8: a file that cannot be decoded is reported, is not rewritten, and the
   run goes on with the next found path. *)
C8_DecodeFailureConfined ==
    /\ crash # "UnboundLocalError"
    /\ \A p \in Candidates :
          disk0[p] = Malformed =>
              /\ disk[p] = Malformed
              /\ Reported("Fixing", p) => Reported("Failed to fix", p)

(* C9: when the pre-check finds no LinkDescription, the fix of that path
   changes no node, fixes nothing, hands no config to fix_config and does not
   write the file. *)
C9_NoLinkDescriptionNoChange ==
    \A p \in Candidates :
        (Evaluated(p) /\ ~has_any_link_description(PlistToJson(disk0[p]))) =>
            /\ results[p].xml = disk0[p]
            /\ results[p].num_fixed = 0
            /\ results[p].evaluated = <<>>
            /\ ~Did("write", p)
            /\ ~Reported("Resulting XML output", p)
            /\ disk[p] = disk0[p]

\* a run that writes has ended after skipping a path at the pre-check
C9_Witness ==
    /\ ~dry_run /\ pc = "done"
    /\ \E p \in Candidates : Evaluated(p) /\ results[p].skipped /\ Reported("Skipping", p)

-----------------------------------------------------------------------------
(* SpecPager: display, the loop that shows a pad of lines in the window *)

Min(a, b) == IF a <= b THEN a ELSE b
Max(a, b) == IF a >= b THEN a ELSE b

PagerKeys == {"KEY_UP", "KEY_DOWN", "KEY_LEFT", "KEY_RIGHT",
              "CTRL_U", "CTRL_D", "CTRL_B", "CTRL_F", "x", "q"}

\* lines 368-373
MoveAmount(k, win_h) ==
    IF k \in {"CTRL_U", "CTRL_D"} THEN win_h \div 2
    ELSE IF k \in {"CTRL_B", "CTRL_F"} THEN win_h \div 2
    ELSE 1

\* lines 376 and 381: towards the start of the content
MoveBack(pos, move_amount) == Max(0, pos - move_amount)

\* mutant: the bound is one past the end of the content
MoveForwardOffByOne(pos, move_amount, extent, win_extent) ==
    Min(extent - win_extent + 1, pos + move_amount)

\* lines 379 and 384: bound by end of content
MoveForward(pos, move_amount, extent, win_extent) ==
    Min(extent - win_extent, pos + move_amount)

\* lines 375-384
NewTop(k, top, win_h) ==
    IF k \in {"KEY_UP", "CTRL_U", "CTRL_B"} THEN MoveBack(top, MoveAmount(k, win_h))
    ELSE IF k \in {"KEY_DOWN", "CTRL_D", "CTRL_F"}
    THEN MoveForward(top, MoveAmount(k, win_h), height, win_h)
    ELSE top

NewLeft(k, left, win_h, win_w) ==
    IF k \in {"KEY_UP", "CTRL_U", "CTRL_B", "KEY_DOWN", "CTRL_D", "CTRL_F"} THEN left
    ELSE IF k = "KEY_LEFT" THEN MoveBack(left, MoveAmount(k, win_h))
    ELSE IF k = "KEY_RIGHT" THEN MoveForward(left, MoveAmount(k, win_h), width, win_w)
    ELSE left

Sessions ==
    [h : 1..MaxLines, w : 1..MaxCols, wh : 1..MaxWin, ww : 1..MaxWin, rs : BOOLEAN]
    \cup {[h |-> ScenarioLines, w |-> ScenarioCols, wh |-> ScenarioRows,
           ww |-> ScenarioCols, rs |-> FALSE]}

PagerInit ==
    /\ \E s \in Sessions :
          /\ height = s.h /\ width = s.w
          /\ win_height = s.wh /\ win_width = s.ww
          /\ resizable = s.rs
    /\ pad_top = 0 /\ pad_left = 0
    /\ last_key = PyNone
    /\ pgPhase = "open"
    /\ resized = FALSE
    /\ run = 0
    /\ FixOff /\ LookupOff /\ FlowOff /\ NavOff

\* one iteration of the loop for the key k that getkey returned; 'q' ends the loop
PagerStep(k) ==
    /\ last_key' = k
    /\ IF k = "q"
       THEN pgPhase' = "closed" /\ UNCHANGED <<pad_top, pad_left>>
       ELSE /\ pgPhase' = "open"
            /\ pad_top' = NewTop(k, pad_top, win_height)
            /\ pad_left' = NewLeft(k, pad_left, win_height, win_width)
    /\ run' = IF k = "KEY_DOWN" THEN Min(height, Max(run, 0) + 1)
              ELSE IF k = "KEY_UP" THEN Max(-height, Min(run, 0) - 1)
              ELSE 0
    /\ UNCHANGED <<height, width, win_height, win_width, resizable, resized>>

PagerKey ==
    /\ pgPhase = "open"
    /\ \E k \in PagerKeys : PagerStep(k)
    /\ UNCHANGED <<fxVars, lkVars, flowVars, navVars>>

\* the terminal is resized: getkey returns KEY_RESIZE, and the iteration for it
\* reads the new size and moves nothing
PagerResize ==
    /\ pgPhase = "open"
    /\ resizable
    /\ \E wh \in 1..MaxWin, ww \in 1..MaxWin :
          /\ <<wh, ww>> # <<win_height, win_width>>
          /\ win_height' = wh /\ win_width' = ww
    /\ last_key' = "KEY_RESIZE"
    /\ resized' = TRUE
    /\ run' = 0
    /\ UNCHANGED <<height, width, pad_top, pad_left, pgPhase, resizable,
                   fxVars, lkVars, flowVars, navVars>>

PagerNext == PagerKey \/ PagerResize

SpecPager == PagerInit /\ [][PagerNext]_vars

(* C10: while the window keeps its size, in an axis where the content is at
   least as large as the window the origin stays within
   [0, content - window]; KEY_DOWN pressed content - window times in a row
   ends at exactly content - window, KEY_UP pressed as often ends at 0. *)
C10_OriginWithinContent ==
    (pgPhase # "off" /\ ~resized) =>
        /\ height >= win_height =>
              /\ 0 <= pad_top /\ pad_top <= height - win_height
              /\ run >= height - win_height => pad_top = height - win_height
              /\ -run >= height - win_height => pad_top = 0
        /\ width >= win_width =>
              /\ 0 <= pad_left /\ pad_left <= width - win_width

\* 100 lines in 24 rows: KEY_DOWN 76 times in a row has ended at row 76
C10_Witness ==
    /\ height = ScenarioLines /\ win_height = ScenarioRows
    /\ run >= ScenarioLines - ScenarioRows
    /\ pad_top = ScenarioLines - ScenarioRows

(* C11: in an axis where the content is smaller than the window the origin is
   0 after any sequence of movement keys, and it is never negative. *)
C11_SmallContentOriginZero ==
    pgPhase # "off" =>
        /\ pad_top >= 0 /\ pad_left >= 0
        /\ height < win_height => pad_top = 0
        /\ width < win_width => pad_left = 0

\* the amounts the three granularities are said to move by
SaidAmount(k, win_h) ==
    IF k \in {"CTRL_U", "CTRL_D"} THEN win_h \div 2
    ELSE IF k \in {"CTRL_B", "CTRL_F"} THEN win_h
    ELSE 1

(* C12: vertical movement has three granularities: KEY_UP / KEY_DOWN move by
   one line, ^U / ^D by half the window height (integer division), ^B / ^F by
   the full window height, each then bound to the content. *)
C12_ThreeGranularities ==
    [][(pgPhase = "open" /\ pgPhase' = "open") =>
          /\ last_key' \in {"KEY_UP", "CTRL_U", "CTRL_B"} =>
                pad_top' = MoveBack(pad_top, SaidAmount(last_key', win_height'))
          /\ last_key' \in {"KEY_DOWN", "CTRL_D", "CTRL_F"} =>
                pad_top' = MoveForward(pad_top, SaidAmount(last_key', win_height'),
                                       height, win_height')]_vars

(* C19: at every redraw the origin is within [0, max(0, content - window)] in
   both axes, also after the window has changed size: once the terminal has
   grown while the view was scrolled to the end, the origin of the next
   render is within the bound of the new size.  This is the upper half of
   that invariant, the half a change of size is about. *)
C19_OriginWithinResizedWindow ==
    pgPhase = "open" =>
        /\ pad_top <= Max(0, height - win_height)
        /\ pad_left <= Max(0, width - win_width)

(* C18: the pre-check on the decoded mapping and the walk of the tree agree on
   every document: the pre-check finds a LinkDescription exactly when the
   walk finds at least one dict with a direct key LinkDescription, so no
   document with a display to fix is skipped. *)
C18_PreCheckAgreesWithTreeWalk ==
    fxPhase \in {"once", "twice"} =>
        /\ has_any_link_description(PlistToJson(fxDoc)) <=> FindAllConfigs(fxDoc) # <<>>
        /\ fxRes.skipped => ToFix(fxDoc) = {}

-----------------------------------------------------------------------------
(* SpecNav: revert, the browser of backups.  Three loops wait in getkey, one
   inside the other: the list of paths (revert), the list of one path's
   backups (restore_file), the content of one backup (view_xml, display).
   A backup is named by the number after ".bak.". *)

\* most backup files of one path
MaxBackups == 2

NavPaths == {get_possible_paths[i] : i \in 1..Len(get_possible_paths)}

\* lines 293-295: the list returned ahead of the glob, whatever the path
HardCodedBackups == <<1623016550>>

\* line 296: the files <filename>.bak.* that the path's directory holds
GlobBackups(path) == [i \in 1..bak_files[path] |-> i]

\* lines 289-296, as they stand (todo_stub) or without the return marked
\* "TODO: REMOVE ME"
get_backups(path) == IF todo_stub THEN HardCodedBackups ELSE GlobBackups(path)

\* the OrderedDict as the sequence of its items
get_backup_locations ==
    LET by_path == [i \in 1..Len(get_possible_paths) |->
                       [path |-> get_possible_paths[i],
                        backups |-> get_backups(get_possible_paths[i])]]
    IN SelectSeq(by_path, LAMBDA item : item.backups # <<>>)

\* list(backups_by_path.keys())
Keys(by_path) == [i \in 1..Len(by_path) |-> by_path[i].path]

\* backups_by_path[selected_path]
BackupsOf(by_path, selected_path) ==
    by_path[CHOOSE i \in 1..Len(by_path) : by_path[i].path = selected_path].backups

\* seq[i] of a Python list: indices from 0, negative ones from the end;
\* IndexError outside
InRange(seq, i) == -Len(seq) <= i /\ i < Len(seq)
At(seq, i) == IF i >= 0 THEN seq[i + 1] ELSE seq[Len(seq) + i + 1]

Enter == "\n"
NavKeys == {"KEY_UP", "KEY_DOWN", Enter, "v", "j", "x", "q"}

\* lines 253 and 308
SelectUp(sel) == Max(sel - 1, 0)
\* lines 255 and 310
SelectDown(sel, n) == Min(sel + 1, n - 1)

Select(k, sel, n) ==
    IF k = "KEY_UP" THEN SelectUp(sel)
    ELSE IF k = "KEY_DOWN" THEN SelectDown(sel, n)
    ELSE sel

\* mutant: <ENTER> does not open the content
ViewKeysWithoutEnter == {"v"}

\* line 311
ViewKeys == {"v", Enter}

\* line 248: while key != "q"
RevertEnds(k) == k = "q"

\* mutant: the loop of restore_file does not end on 'q'
RestoreNeverEnds(k) == FALSE

\* line 303: while key != "q"
RestoreEnds(k) == k = "q"

\* the loops from the outermost in
Screens == <<"PathList", "BackupList", "ContentView">>

QRun(k) == IF k = "q" THEN Min(q_run + 1, Len(Screens) + 1) ELSE 0

\* the content shown: small, in a window that keeps its size
NavSessions ==
    {s \in Sessions : ~s.rs /\ s.h <= 2 /\ s.w = 1 /\ s.wh <= 2 /\ s.ww = 1}

pgLocals == <<height, width, win_height, win_width, pad_top, pad_left, pgPhase,
              resizable, resized, run>>

\* display(stdscr, lines) up to its first getkey
DisplayOpens ==
    /\ \E s \in NavSessions :
          /\ height' = s.h /\ width' = s.w
          /\ win_height' = s.wh /\ win_width' = s.ww
    /\ pad_top' = 0 /\ pad_left' = 0
    /\ pgPhase' = "open"
    /\ resizable' = FALSE /\ resized' = FALSE /\ run' = 0

\* display has returned: its locals are gone
DisplayReturns ==
    /\ height' = 0 /\ width' = 0 /\ win_height' = 0 /\ win_width' = 0
    /\ pad_top' = 0 /\ pad_left' = 0
    /\ pgPhase' = "off"
    /\ resizable' = FALSE /\ resized' = FALSE /\ run' = 0

Raise(exc) == screen' = "crashed" /\ nav_exc' = exc

NavStart(stub) ==
    /\ screen = "start"
    /\ todo_stub = stub
    /\ bak_files \in [NavPaths -> 0..MaxBackups]
    /\ backups_by_path = <<>> /\ paths = <<>> /\ selection = 0
    /\ rf_frame = NoFrame /\ view_fmt = PyNone /\ nav_exc = PyNone
    /\ queried = FALSE /\ q_run = 0
    /\ FixOff /\ LookupOff /\ FlowOff /\ PagerOff

\* the program as it stands
NavInit == NavStart(TRUE)

\* revert from its start to its first getkey (lines 242-276 with key None)
RevertStart ==
    /\ screen = "start"
    /\ backups_by_path' = get_backup_locations
    /\ paths' = Keys(get_backup_locations)
    /\ selection' = 0
    /\ queried' = TRUE
    /\ IF InRange(Keys(get_backup_locations), 0)
       THEN screen' = "PathList" /\ UNCHANGED nav_exc
       ELSE Raise("IndexError")
    /\ UNCHANGED <<todo_stub, bak_files, rf_frame, view_fmt, q_run, pgVars,
                   fxVars, lkVars, flowVars>>

\* one iteration of revert's loop for the key getkey returned, when the
\* iteration does not return from restore_file (lines 248-259, 265-276);
\* <ENTER> runs restore_file up to its first getkey (lines 301-333)
RevertKey ==
    /\ screen = "PathList"
    /\ \E k \in NavKeys :
          /\ last_key' = k
          /\ q_run' = QRun(k)
          /\ IF RevertEnds(k)
             THEN screen' = "exited" /\ UNCHANGED <<selection, rf_frame, nav_exc>>
             ELSE LET sel == Select(k, selection, Len(backups_by_path))
                  IN /\ selection' = sel
                     /\ IF ~InRange(paths, sel)
                        THEN Raise("IndexError") /\ UNCHANGED rf_frame
                        ELSE IF k = Enter
                        THEN /\ screen' = "BackupList"
                             /\ rf_frame' =
                                   [path |-> At(paths, sel),
                                    backup_paths |-> BackupsOf(backups_by_path, At(paths, sel)),
                                    selection |-> 0]
                             /\ UNCHANGED nav_exc
                        ELSE UNCHANGED <<screen, rf_frame, nav_exc>>
    /\ queried' = FALSE
    /\ UNCHANGED <<todo_stub, bak_files, backups_by_path, paths, view_fmt, pgLocals,
                   fxVars, lkVars, flowVars>>

\* one iteration of restore_file's loop for the key getkey returned
\* (lines 303-333); 'v' and <ENTER> run view_xml and display up to display's
\* first getkey (lines 337-398 with key None); 'q' returns to revert, which
\* asks for the backups again and redraws (lines 260-276)
RestoreKey ==
    /\ screen = "BackupList"
    /\ \E k \in NavKeys :
          /\ last_key' = k
          /\ q_run' = QRun(k)
          /\ IF RestoreEnds(k)
             THEN /\ backups_by_path' = get_backup_locations
                  /\ paths' = Keys(get_backup_locations)
                  /\ queried' = TRUE
                  /\ screen' = "PathList"
                  /\ rf_frame' = NoFrame
                  /\ UNCHANGED <<view_fmt, nav_exc, pgLocals>>
             ELSE LET sel == Select(k, rf_frame.selection, Len(rf_frame.backup_paths))
                  IN /\ rf_frame' = [rf_frame EXCEPT !.selection = sel]
                     /\ queried' = FALSE
                     /\ UNCHANGED <<backups_by_path, paths>>
                     /\ IF k \notin ViewKeys
                        THEN UNCHANGED <<screen, view_fmt, nav_exc, pgLocals>>
                        ELSE IF ~InRange(rf_frame.backup_paths, sel)
                        THEN Raise("IndexError") /\ UNCHANGED <<view_fmt, pgLocals>>
                        ELSE /\ screen' = "ContentView"
                             /\ view_fmt' = "xml1"
                             /\ DisplayOpens
                             /\ UNCHANGED nav_exc
    /\ UNCHANGED <<todo_stub, bak_files, selection, fxVars, lkVars, flowVars>>

\* one iteration of display's loop inside view_xml (lines 363-398); 'q' ends
\* display and view_xml, and restore_file redraws the list it was given
\* (lines 314-333)
ViewKey ==
    /\ screen = "ContentView"
    /\ \E k \in PagerKeys :
          /\ q_run' = QRun(k)
          /\ IF k = "q"
             THEN /\ last_key' = k
                  /\ DisplayReturns
                  /\ screen' = "BackupList"
                  /\ view_fmt' = PyNone
             ELSE PagerStep(k) /\ UNCHANGED <<screen, view_fmt>>
    /\ queried' = FALSE
    /\ UNCHANGED <<todo_stub, bak_files, backups_by_path, paths, selection, rf_frame,
                   nav_exc, fxVars, lkVars, flowVars>>

NavNext == RevertStart \/ RevertKey \/ RestoreKey \/ ViewKey

SpecNav == NavInit /\ [][NavNext]_vars

(* SpecNavGlob: the browser with get_backups listing the directory (the
   return marked "TODO: REMOVE ME" removed), while backup files come and go *)

NavGlobInit == NavStart(FALSE)

\* a backup file is created (a run of the fix, line 200-210) or deleted
\* while the browser waits for a key
BakChange ==
    /\ screen \in {"PathList", "BackupList", "ContentView"}
    /\ \E f \in [NavPaths -> 0..MaxBackups] : f # bak_files /\ bak_files' = f
    /\ queried' = FALSE
    /\ UNCHANGED <<screen, todo_stub, backups_by_path, paths, selection, rf_frame,
                   view_fmt, nav_exc, q_run, pgVars, fxVars, lkVars, flowVars>>

NavGlobNext == RevertStart \/ RevertKey \/ RestoreKey \/ ViewKey \/ BakChange

SpecNavGlob == NavGlobInit /\ [][NavGlobNext]_vars

-----------------------------------------------------------------------------
(* The browser's claims *)

\* how many loops are open: 1 in PathList, 2 in BackupList, 3 in ContentView,
\* 0 outside the browser
Level(scr) ==
    IF \E i \in 1..Len(Screens) : Screens[i] = scr
    THEN CHOOSE i \in 1..Len(Screens) : Screens[i] = scr
    ELSE 0

(* C13: the three screens are a stack.  In PathList <ENTER> opens BackupList
   for the selected path and 'q' ends the browser; in BackupList <ENTER> or
   'v' opens ContentView for the selected backup and 'q' returns to PathList;
   in ContentView 'q' returns to BackupList.  ContentView is entered from
   BackupList only, and a 'q' closes exactly one level. *)
C13_ThreeLevelStack ==
    [][/\ (screen = "PathList" /\ last_key' = Enter) =>
              /\ screen' = "BackupList"
              /\ rf_frame'.path = At(paths, selection)
              /\ rf_frame'.backup_paths = BackupsOf(backups_by_path, At(paths, selection))
       /\ (screen = "PathList" /\ last_key' = "q") => screen' = "exited"
       /\ (screen = "BackupList" /\ last_key' \in {Enter, "v"}) =>
              /\ screen' = "ContentView"
              /\ rf_frame' = rf_frame
       /\ (screen = "BackupList" /\ last_key' = "q") => screen' = "PathList"
       /\ (screen = "ContentView" /\ last_key' = "q") => screen' = "BackupList"
       /\ (screen # "ContentView" /\ screen' = "ContentView") => screen = "BackupList"
       /\ (Level(screen) > 0 /\ last_key' = "q") => Level(screen') = Level(screen) - 1
      ]_vars

\* 'q' in the content of a backup of the second path has led back to that
\* path's list of backups
C13_Witness ==
    /\ screen = "BackupList" /\ last_key = "q" /\ q_run = 1
    /\ rf_frame.path = HomePath /\ selection = 1

(* C14: in every state of the browser the selection of PathList and the
   selection of BackupList are an index of the list shown, from 0 to its
   length - 1, also after revert has asked for the backups again on the
   return from BackupList and the list has come back shorter.  Stated for a
   list of paths that is not empty. *)
C14_SelectionWithinList ==
    /\ (screen = "PathList" /\ paths # <<>>) =>
          (0 <= selection /\ selection <= Len(paths) - 1)
    /\ screen = "BackupList" =>
          /\ 0 <= rf_frame.selection
          /\ rf_frame.selection <= Len(rf_frame.backup_paths) - 1

(* C15: when no path has a backup the browser does not raise: it shows the
   empty list, stays there on every key but 'q', and ends on 'q'. *)
C15_EmptyListingIsShown ==
    (screen \notin {"off", "start"} /\ paths = <<>>) =>
        /\ nav_exc = PyNone
        /\ screen \in {"PathList", "exited"}
        /\ screen = "exited" => last_key = "q"

(* C16: in BackupList the key 'j' opens ContentView on the selected backup
   in the JSON format, as <ENTER> and 'v' open it in the XML format. *)
C16_JOpensJson ==
    [][(screen = "BackupList" /\ last_key' = "j") =>
          (screen' = "ContentView" /\ view_fmt' = "json")]_vars

(* C17: every return into PathList (from BackupList) and every return into
   BackupList (from ContentView) asks for the backups again before the
   screen is redrawn, so the list shown after it is the one just fetched. *)
C17_ReturnAsksAgain ==
    [][/\ (screen = "BackupList" /\ screen' = "PathList") =>
              (queried' /\ backups_by_path' = get_backup_locations)
       /\ (screen = "ContentView" /\ screen' = "BackupList") =>
              (queried' /\ rf_frame'.backup_paths = get_backups(rf_frame'.path))
      ]_vars

(* C20: 'q' always leads out: from any state of the browser, whatever the
   selection and the scroll position, 'q' pressed again and again closes one
   loop per press and ends the browser after at most three presses. *)
C20_QuitLeadsOut ==
    screen # "off" =>
        /\ Level(screen) + q_run <= Len(Screens)
        /\ q_run > 0 => nav_exc = PyNone
        /\ q_run = Len(Screens) => screen = "exited"

\* three presses of 'q' in a row, the first in ContentView, have ended the browser
C20_Witness ==
    /\ screen = "exited" /\ q_run = Len(Screens) /\ nav_exc = PyNone

====
